---------------------------- MODULE Spec2Model ----------------------------
(***************************************************************************)
(* A model of the reflective enum generator of src/enum.h: the tables the  *)
(* ENUM macro generates from a declaration list, the name matchers, the    *)
(* range analysis, the three linear lookups, the lazily built processed    *)
(* name table, the value iterator, and the generated type's conversions.   *)
(*                                                                         *)
(* Characters are their ASCII codes; a C string is the sequence of its     *)
(* characters, the terminating '\0' being the character read one past the  *)
(* end.  C arrays are 0-based: At(a, i) reads a[i].                        *)
(*                                                                         *)
(* The underlying type is an unsigned type of _Integral bits whose rank is *)
(* at least that of int, so its arithmetic is modulo 2^_Integral (no       *)
(* integral promotion widens it).                                          *)
(***************************************************************************)
EXTENDS Integers, Sequences, FiniteSets, TLC

VARIABLES
    decls,             \* the declaration list handed to ENUM(...): the program
    _Integral,         \* the UnderlyingType handed to ENUM(...): its width in bits
    _value_array,      \* _GeneratedArrays::_value_array
    _name_array,       \* _GeneratedArrays::_name_array (raw, stringized)
    arg,               \* the argument the client code passes to the lookups
    last,              \* the last call of the client: what it returned or threw
    heap,              \* the blocks obtained with new[] and never released
    _processedNames,   \* _Enum::_processedNames: 0 (nullptr) or a block of heap
    loops,             \* the client's range-for loops over values()
    threads,           \* the threads that call to_string concurrently
    frame              \* the locals of a running _enum::_processNames

vars == <<decls, _Integral, _value_array, _name_array, arg, last, heap, _processedNames,
          loops, threads, frame>>

---------------------------------------------------------------------------
(* Bounds of the model.                                                    *)

\* width in bits of the underlying type of an ENUM whose lookups are explored
LookupBits == 2
\* width in bits of the underlying type of an ENUM whose range is explored
RangeBits == 4
\* most declarations in an ENUM whose lookups are explored
MaxDecls == 2
\* most declarations in an ENUM whose range metadata is explored
MaxRangeDecls == 3

RECURSIVE Pow2(_)
Pow2(n) == IF n = 0 THEN 1 ELSE 2 * Pow2(n - 1)

\* the values of an unsigned type of the given width
Integral(bits) == 0..(Pow2(bits) - 1)

---------------------------------------------------------------------------
(* Strings.                                                                *)

\* s[index] of a null-terminated C string
CharAt(s, index) == IF index < Len(s) THEN s[index + 1] ELSE 0

\* a[index] of a C array
At(a, index) == a[index + 1]

RECURSIVE Decimal(_)
\* the decimal literal of a value, as the source text of an initialiser
Decimal(v) == IF v < 10 THEN <<48 + v>> ELSE Decimal(v \div 10) \o <<48 + (v % 10)>>

RECURSIVE SeqsUpTo(_, _)
\* every string over the characters S of length at most n
SeqsUpTo(S, n) ==
    IF n = 0 THEN {<<>>}
    ELSE LET shorter == SeqsUpTo(S, n - 1)
         IN  shorter \cup {Append(s, c) : s \in shorter, c \in S}

---------------------------------------------------------------------------
(* The declaration list and the tables the ENUM macro generates from it.   *)

\* identifiers the declarations draw from: "a", "A", "Aa"
IdPool == { <<97>>, <<65>>, <<65, 97>> }

\* explicit initialisers of the declarations whose lookups are explored
InitValues == {0}

\* one declaration: `id`, `id=init` (tight) or `id = init`
Declarations(ids, inits) ==
    [id : ids, hasInit : {FALSE}, init : {0}, tight : {FALSE}]
    \cup [id : ids, hasInit : {TRUE}, init : inits, tight : BOOLEAN]

RECURSIVE DeclLists(_, _)
\* the declaration lists of 1..n declarations drawn from D
DeclLists(D, n) ==
    IF n = 0 THEN {<<>>}
    ELSE LET shorter == DeclLists(D, n - 1)
         IN  shorter \cup {Append(l, d) : l \in shorter, d \in D}

\* #expression: the whole declaration as written, initialiser included
_ENUM_STRINGIZE_SINGLE(d) ==
    IF d.hasInit
    THEN d.id \o (IF d.tight THEN <<61>> ELSE <<32, 61, 32>>) \o Decimal(d.init)
    ELSE d.id

_ENUM_STRINGIZE(l) == [i \in 1..Len(l) |-> _ENUM_STRINGIZE_SINGLE(l[i])]

RECURSIVE _Enumerated(_, _)
\* enum _Enumerated : _Integral { ... }: the value of enumerator i (1-based),
\* its initialiser or one more than its predecessor's value, 0 for the first
_Enumerated(l, i) ==
    IF l[i].hasInit THEN l[i].init
    ELSE IF i = 1 THEN 0
    ELSE _Enumerated(l, i - 1) + 1

\* (_eat_assign<_Enumerated>)A = 42 yields the value of enumerator A
_ENUM_EAT_ASSIGN(l) == [i \in 1..Len(l) |-> _Enumerated(l, i)]

\* the lists the compiler accepts: at least one constant (static_assert),
\* no identifier declared twice, every enumerator a value of _Integral
Compiles(l, bits) ==
    /\ Len(l) > 0
    /\ \A i, j \in 1..Len(l) : l[i].id = l[j].id => i = j
    /\ \A i \in 1..Len(l) : _Enumerated(l, i) \in Integral(bits)

_size == Len(_value_array)


---------------------------------------------------------------------------
(* Name-ender matcher and name comparators.                                *)

\* "= \t\n"
_ENUM_NAME_ENDERS == <<61, 32, 9, 10>>

RECURSIVE _endsName(_, _)
\* _endsName without the implicit null terminator of _ENUM_NAME_ENDERS
_endsName_noTerminator(c, index) ==
    \E k \in (index + 1)..Len(_ENUM_NAME_ENDERS) : c = _ENUM_NAME_ENDERS[k]

_endsName(c, index) ==
    IF c = CharAt(_ENUM_NAME_ENDERS, index) THEN TRUE
    ELSE IF CharAt(_ENUM_NAME_ENDERS, index) = 0 THEN FALSE
    ELSE _endsName(c, index + 1)

\* _toLowercaseAscii folding nothing
_toLowercaseAscii_identity(c) == c

_toLowercaseAscii(c) == IF c >= 65 /\ c <= 90 THEN c + 32 ELSE c

RECURSIVE _namesMatch(_, _, _)
\* _namesMatch accepting a reference name that is a prefix of the declared one
_namesMatch_prefix(stringizedName, referenceName, index) ==
    IF _endsName(CharAt(stringizedName, index), 0)
    THEN CharAt(referenceName, index) = 0
    ELSE IF CharAt(referenceName, index) = 0 THEN TRUE
    ELSE IF CharAt(stringizedName, index) # CharAt(referenceName, index) THEN FALSE
    ELSE _namesMatch(stringizedName, referenceName, index + 1)

_namesMatch(stringizedName, referenceName, index) ==
    IF _endsName(CharAt(stringizedName, index), 0)
    THEN CharAt(referenceName, index) = 0
    ELSE IF CharAt(referenceName, index) = 0 THEN FALSE
    ELSE IF CharAt(stringizedName, index) # CharAt(referenceName, index) THEN FALSE
    ELSE _namesMatch(stringizedName, referenceName, index + 1)

RECURSIVE _namesMatchNocase(_, _, _)
_namesMatchNocase(stringizedName, referenceName, index) ==
    IF _endsName(CharAt(stringizedName, index), 0)
    THEN CharAt(referenceName, index) = 0
    ELSE IF CharAt(referenceName, index) = 0 THEN FALSE
    ELSE IF _toLowercaseAscii(CharAt(stringizedName, index))
            # _toLowercaseAscii(CharAt(referenceName, index)) THEN FALSE
    ELSE _namesMatchNocase(stringizedName, referenceName, index + 1)

\* (size_t)-1: no index of any table
_ENUM_NOT_FOUND == -1

---------------------------------------------------------------------------
(* Range analysis.                                                         *)

RECURSIVE _findMinLoop(_, _, _, _)
\* _findMinLoop keeping the greater value
_findMinLoop_greater(values, valueCount, index, best) ==
    IF index = valueCount THEN best
    ELSE IF At(values, index) > best
         THEN _findMinLoop(values, valueCount, index + 1, At(values, index))
         ELSE _findMinLoop(values, valueCount, index + 1, best)

_findMinLoop(values, valueCount, index, best) ==
    IF index = valueCount THEN best
    ELSE IF At(values, index) < best
         THEN _findMinLoop(values, valueCount, index + 1, At(values, index))
         ELSE _findMinLoop(values, valueCount, index + 1, best)

_findMin(values, valueCount) == _findMinLoop(values, valueCount, 1, At(values, 0))

RECURSIVE _findMaxLoop(_, _, _, _)
_findMaxLoop(values, valueCount, index, best) ==
    IF index = valueCount THEN best
    ELSE IF At(values, index) > best
         THEN _findMaxLoop(values, valueCount, index + 1, At(values, index))
         ELSE _findMaxLoop(values, valueCount, index + 1, best)

_findMax(values, count) == _findMaxLoop(values, count, 1, At(values, 0))

_first == At(_value_array, 0)
_last == At(_value_array, _size - 1)
_min == _findMin(_value_array, _size)
_max == _findMax(_value_array, _size)
\* _span without the + 1
_span_exclusive == (_max - _min) % Pow2(_Integral)

\* _max - _min + 1 in the arithmetic of the underlying type, then a size_t
_span == (_max - _min + 1) % Pow2(_Integral)

---------------------------------------------------------------------------
(* The three lookups.  Each returns [thrown, index]: thrown is "" when the *)
(* loop returns index, and the exception's type when it throws.            *)

Returned(index) == [thrown |-> "", index |-> index]
Thrown(what) == [thrown |-> what, index |-> _ENUM_NOT_FOUND]

RECURSIVE _from_int_loop(_, _, _)
\* _from_int_loop stopping one entry early
_from_int_loop_short(value, throw_exception, index) ==
    IF index >= _size - 1
    THEN (IF throw_exception THEN Thrown("runtime_error")
          ELSE Returned(_ENUM_NOT_FOUND))
    ELSE IF At(_value_array, index) = value THEN Returned(index)
    ELSE _from_int_loop(value, throw_exception, index + 1)

\* _from_int_loop preferring a later match to an earlier one
_from_int_loop_lastMatch(value, throw_exception, index) ==
    IF index = _size
    THEN (IF throw_exception THEN Thrown("runtime_error")
          ELSE Returned(_ENUM_NOT_FOUND))
    ELSE LET later == _from_int_loop(value, FALSE, index + 1) IN
           IF later.index # _ENUM_NOT_FOUND THEN later
           ELSE IF At(_value_array, index) = value THEN Returned(index)
           ELSE _from_int_loop(value, throw_exception, index + 1)

_from_int_loop(value, throw_exception, index) ==
    IF index = _size
    THEN (IF throw_exception THEN Thrown("runtime_error")
          ELSE Returned(_ENUM_NOT_FOUND))
    ELSE IF At(_value_array, index) = value THEN Returned(index)
    ELSE _from_int_loop(value, throw_exception, index + 1)

RECURSIVE _from_string_loop(_, _, _)
_from_string_loop(name, throw_exception, index) ==
    IF index = _size
    THEN (IF throw_exception THEN Thrown("runtime_error")
          ELSE Returned(_ENUM_NOT_FOUND))
    ELSE IF _namesMatch(At(_name_array, index), name, 0) THEN Returned(index)
    ELSE _from_string_loop(name, throw_exception, index + 1)

RECURSIVE _from_string_nocase_loop(_, _, _)
_from_string_nocase_loop(name, throw_exception, index) ==
    IF index = _size
    THEN (IF throw_exception THEN Thrown("runtime_error")
          ELSE Returned(_ENUM_NOT_FOUND))
    ELSE IF _namesMatchNocase(At(_name_array, index), name, 0) THEN Returned(index)
    ELSE _from_string_nocase_loop(name, throw_exception, index + 1)

---------------------------------------------------------------------------
(* The heap and the name processor.  A block is [kind, data]: a pointer    *)
(* array ("names") of pointers [blk, off] into a character block           *)
(* ("chars").  A pointer to a block is its position in heap; 0 is nullptr. *)

nullptr == 0

\* the content of storage that new[] returned and nothing has written yet
Indeterminate == -1

\* what `new T[n]` can do: return the block, or throw std::bad_alloc
\* (a conforming operator new[] never returns nullptr)
NewOutcomes == {"ok", "bad_alloc"}

\* new T[n] on heap h, succeeding
New(h, kind, n) == Append(h, [kind |-> kind, data |-> [i \in 1..n |-> Indeterminate]])

strlen(s) == Len(s)

RECURSIVE strpbrk(_, _, _)
\* std::strpbrk(s + from, accept): the offset in s of the first character
\* that is one of accept, [null |-> TRUE] when there is none
strpbrk(s, accept, from) ==
    IF CharAt(s, from) = 0 THEN [null |-> TRUE, off |-> 0]
    ELSE IF \E k \in 1..Len(accept) : accept[k] = CharAt(s, from)
         THEN [null |-> FALSE, off |-> from]
    ELSE strpbrk(s, accept, from + 1)

\* std::strncpy(dest + at, src, n), for n <= strlen(src)
strncpy(dest, at, src, n) ==
    [i \in 1..Len(dest) |-> IF i > at /\ i <= at + n THEN src[i - at] ELSE dest[i]]

RECURSIVE BytesNeeded_noTerminators(_, _, _)
\* the first loop of _enum::_processNames counting no terminator
BytesNeeded_noTerminators(rawNames, count, index) ==
    IF index = count THEN 0
    ELSE strlen(At(rawNames, index))
             + BytesNeeded_noTerminators(rawNames, count, index + 1)

RECURSIVE BytesNeeded(_, _, _)
\* the first loop of _enum::_processNames
BytesNeeded(rawNames, count, index) ==
    IF index = count THEN 0
    ELSE strlen(At(rawNames, index)) + 1 + BytesNeeded(rawNames, count, index + 1)

\* SymbolCount that never finds an ender: the whole raw name is copied
SymbolCount_untrimmed(rawName) == strlen(rawName)

\* how far into a raw name the trimming loop copies
SymbolCount(rawName) ==
    LET nameEnd == strpbrk(rawName, _ENUM_NAME_ENDERS, 0)
    IN  IF nameEnd.null THEN strlen(rawName) ELSE nameEnd.off

RECURSIVE TrimLoop(_, _, _, _, _, _)
\* the second loop of _enum::_processNames, from `index` on: the pointer
\* array and the character storage it leaves
TrimLoop(rawNames, count, index, processedNames, nameStorage, writePointer) ==
    IF index = count
    THEN [names |-> processedNames, chars |-> nameStorage.data]
    ELSE LET symbolCount == SymbolCount(At(rawNames, index))
             copied == strncpy(nameStorage.data, writePointer.off,
                               At(rawNames, index), symbolCount)
             ended == [copied EXCEPT ![writePointer.off + symbolCount + 1] = 0]
         IN  TrimLoop(rawNames, count, index + 1,
                      [processedNames EXCEPT ![index + 1] = writePointer],
                      [nameStorage EXCEPT !.data = ended],
                      [writePointer EXCEPT !.off = @ + symbolCount + 1])

\* _enum::_processNames(rawNames, count) on heap h, the two new[] doing new1
\* and new2: [thrown, ret, heap]
_enum_processNames(rawNames, count, h, new1, new2) ==
    IF new1 = "bad_alloc" THEN [thrown |-> "bad_alloc", ret |-> nullptr, heap |-> h]
    ELSE
    LET h1 == New(h, "names", count)
        processedNames == Len(h1)
        bytesNeeded == BytesNeeded(rawNames, count, 0)
    IN  IF new2 = "bad_alloc"
        THEN [thrown |-> "bad_alloc", ret |-> nullptr, heap |-> h1]
        ELSE
        LET h2 == New(h1, "chars", bytesNeeded)
            nameStorage == Len(h2)
            done == TrimLoop(rawNames, count, 0, h2[processedNames].data,
                             h2[nameStorage], [blk |-> nameStorage, off |-> 0])
        IN  [thrown |-> "", ret |-> processedNames,
             heap |-> [h2 EXCEPT ![processedNames].data = done.names,
                                 ![nameStorage].data = done.chars]]

RECURSIVE CString(_, _)
\* the null-terminated string that starts at offset off of a character array
CString(chars, off) ==
    IF chars[off + 1] = 0 THEN <<>> ELSE <<chars[off + 1]>> \o CString(chars, off + 1)

\* the string a const char* into the heap points to
StringAt(h, ptr) == CString(h[ptr.blk].data, ptr.off)

---------------------------------------------------------------------------
(* The generated type.  An instance is [has, _value, via, decl]: has is    *)
(* FALSE where a call yields no instance, via names the call that made it, *)
(* decl the declaration (1-based) of a constant, 0 otherwise.              *)

NoInstance == [has |-> FALSE, _value |-> 0, via |-> "", decl |-> 0]
Instance(value, via, decl) == [has |-> TRUE, _value |-> value, via |-> via, decl |-> decl]

\* a call of the client: op, the exception it threw ("" when it returned),
\* and what it returned: an index, an integer, a bool, a name, an instance;
\* src is the call that made the instance whose to_int() is the argument,
\* news the number of blocks the call obtained with new[] and still holds
NoCall == [op |-> "", thrown |-> "", index |-> _ENUM_NOT_FOUND, value |-> 0,
           flag |-> FALSE, name |-> <<>>, inst |-> NoInstance, src |-> "",
           news |-> 0]

IntArg(v) == [kind |-> "int", int |-> v, str |-> <<>>, decl |-> 0]
StrArg(n) == [kind |-> "str", int |-> 0, str |-> n, decl |-> 0]
ConstArg(i) == [kind |-> "const", int |-> 0, str |-> <<>>, decl |-> i]

\* the characters of the query strings: a A =
QueryChars == {97, 65, 61}

\* the longest identifier of the pool
MaxIdLen == CHOOSE n \in 0..8 : /\ \E id \in IdPool : Len(id) = n
                                /\ \A id \in IdPool : Len(id) <= n

Queries == SeqsUpTo(QueryChars, MaxIdLen)

\* most blocks a run leaves on the heap with no pointer to them
MaxLeaked == 1

\* the blocks of the heap no pointer of the program refers to
Leaked(h, pn) == {b \in 1..Len(h) : h[b].kind = "names" /\ b # pn}

\* the frame of _enum::_processNames while it is not running
NoFrame == [pc |-> "none", index |-> 0, bytesNeeded |-> 0, processedNames |-> nullptr,
            nameStorage |-> nullptr, writePointer |-> 0]

\* _processNames() without the test of _processedNames: it builds at each call
_processNames_unguarded(h, pn, new1, new2) ==
    LET built == _enum_processNames(_name_array, _size, h, new1, new2)
    IN  [thrown |-> built.thrown,
         pn |-> IF built.thrown = "" THEN built.ret ELSE pn,
         heap |-> built.heap]

\* static void _processNames(): [thrown, pn, heap] from heap h and
\* _processedNames pn, the allocations of a build doing new1 and new2
_processNames(h, pn, new1, new2) ==
    IF pn = nullptr
    THEN LET built == _enum_processNames(_name_array, _size, h, new1, new2)
         IN  [thrown |-> built.thrown,
              pn |-> IF built.thrown = "" THEN built.ret ELSE pn,
              heap |-> built.heap]
    ELSE [thrown |-> "", pn |-> pn, heap |-> h]

\* what the allocations of a call of _processNames() can do: there are none
\* once the table is built
Allocations(pn) == IF pn = nullptr THEN NewOutcomes ELSE {"ok"}

\* constexpr _Enum(_Enumerated constant)
Construct ==
    /\ arg.kind = "const"
    /\ last' = [NoCall EXCEPT !.op = "_Enum",
                   !.inst = Instance(_Enumerated(decls, arg.decl), "constant", arg.decl)]
    /\ UNCHANGED <<decls, _Integral, _value_array, _name_array, arg, heap,
                   _processedNames, loops, threads, frame>>

to_int ==
    /\ last.inst.has
    /\ last' = [NoCall EXCEPT !.op = "to_int", !.value = last.inst._value,
                              !.inst = last.inst]
    /\ UNCHANGED <<decls, _Integral, _value_array, _name_array, arg, heap,
                   _processedNames, loops, threads, frame>>

\* _from_int(value): the argument is the client's, or what to_int returned
_from_int ==
    /\ \E given \in {[value |-> arg.int, src |-> ""] : k \in {arg.kind} \cap {"int"}}
                    \cup {[value |-> last.value, src |-> last.inst.via] :
                              o \in {last.op} \cap {"to_int"}} :
        \E found \in {_from_int_loop(given.value, TRUE, 0)} :
            last' = [NoCall EXCEPT !.op = "_from_int", !.value = given.value,
                        !.src = given.src,
                        !.thrown = found.thrown, !.index = found.index,
                        !.inst = IF found.thrown = ""
                                 THEN Instance(At(_value_array, found.index), "_from_int", 0)
                                 ELSE NoInstance]
    /\ UNCHANGED <<decls, _Integral, _value_array, _name_array, arg, heap,
                   _processedNames, loops, threads, frame>>

_from_int_unchecked ==
    /\ arg.kind = "int"
    /\ last' = [NoCall EXCEPT !.op = "_from_int_unchecked", !.value = arg.int,
                   !.inst = Instance(arg.int, "_from_int_unchecked", 0)]
    /\ UNCHANGED <<decls, _Integral, _value_array, _name_array, arg, heap,
                   _processedNames, loops, threads, frame>>

\* _from_string that first has the processed name table built
_from_string_processed ==
    /\ arg.kind = "str"
    /\ \E built \in {_processNames(heap, _processedNames, "ok", "ok")},
          found \in {_from_string_loop(arg.str, TRUE, 0)} :
           /\ heap' = built.heap
           /\ _processedNames' = built.pn
           /\ last' = [NoCall EXCEPT !.op = "_from_string", !.name = arg.str,
                          !.thrown = found.thrown, !.index = found.index,
                          !.inst = IF found.thrown = ""
                                   THEN Instance(At(_value_array, found.index),
                                                 "_from_string", 0)
                                   ELSE NoInstance]
    /\ UNCHANGED <<decls, _Integral, _value_array, _name_array, arg, loops, threads, frame>>

_from_string ==
    /\ arg.kind = "str"
    /\ \E found \in {_from_string_loop(arg.str, TRUE, 0)} :
           last' = [NoCall EXCEPT !.op = "_from_string", !.name = arg.str,
                       !.thrown = found.thrown, !.index = found.index,
                       !.inst = IF found.thrown = ""
                                THEN Instance(At(_value_array, found.index), "_from_string", 0)
                                ELSE NoInstance]
    /\ UNCHANGED <<decls, _Integral, _value_array, _name_array, arg, heap,
                   _processedNames, loops, threads, frame>>

_from_string_nocase ==
    /\ arg.kind = "str"
    /\ \E found \in {_from_string_nocase_loop(arg.str, TRUE, 0)} :
           last' = [NoCall EXCEPT !.op = "_from_string_nocase", !.name = arg.str,
                       !.thrown = found.thrown, !.index = found.index,
                       !.inst = IF found.thrown = ""
                                THEN Instance(At(_value_array, found.index),
                                              "_from_string_nocase", 0)
                                ELSE NoInstance]
    /\ UNCHANGED <<decls, _Integral, _value_array, _name_array, arg, heap,
                   _processedNames, loops, threads, frame>>

\* _is_valid(_Integral value)
_is_valid ==
    /\ arg.kind = "int"
    /\ \E found \in {_from_int_loop(arg.int, FALSE, 0)} :
           last' = [NoCall EXCEPT !.op = "_is_valid", !.value = arg.int,
                       !.thrown = found.thrown, !.index = found.index,
                       !.flag = (found.index # _ENUM_NOT_FOUND)]
    /\ UNCHANGED <<decls, _Integral, _value_array, _name_array, arg, heap,
                   _processedNames, loops, threads, frame>>

\* _is_valid(const char *name)
_is_valid_name ==
    /\ arg.kind = "str"
    /\ \E found \in {_from_string_loop(arg.str, FALSE, 0)} :
           last' = [NoCall EXCEPT !.op = "_is_valid_name", !.name = arg.str,
                       !.thrown = found.thrown, !.index = found.index,
                       !.flag = (found.index # _ENUM_NOT_FOUND)]
    /\ UNCHANGED <<decls, _Integral, _value_array, _name_array, arg, heap,
                   _processedNames, loops, threads, frame>>

_is_valid_nocase ==
    /\ arg.kind = "str"
    /\ \E found \in {_from_string_nocase_loop(arg.str, FALSE, 0)} :
           last' = [NoCall EXCEPT !.op = "_is_valid_nocase", !.name = arg.str,
                       !.thrown = found.thrown, !.index = found.index,
                       !.flag = (found.index # _ENUM_NOT_FOUND)]
    /\ UNCHANGED <<decls, _Integral, _value_array, _name_array, arg, heap,
                   _processedNames, loops, threads, frame>>

RECURSIVE to_string_loop(_, _)
\* the loop of to_string starting at the second entry
to_string_loop_skipFirst(value, index) ==
    IF index + 1 < _size
    THEN (IF At(_value_array, index + 1) = value THEN index + 1
          ELSE to_string_loop(value, index + 1))
    ELSE _size

\* the loop of to_string: the first index whose value is `value`, _size if none
to_string_loop(value, index) ==
    IF index < _size
    THEN (IF At(_value_array, index) = value THEN index
          ELSE to_string_loop(value, index + 1))
    ELSE _size

to_string ==
    /\ last.inst.has
    /\ \E new1, new2 \in Allocations(_processedNames) :
        \E built \in {_processNames(heap, _processedNames, new1, new2)},
           index \in {to_string_loop(last.inst._value, 0)} :
            /\ Cardinality(Leaked(built.heap, built.pn)) <= MaxLeaked
            /\ heap' = built.heap
            /\ _processedNames' = built.pn
            /\ last' = IF built.thrown # ""
                       THEN [NoCall EXCEPT !.op = "to_string", !.inst = last.inst,
                                           !.news = Len(built.heap) - Len(heap),
                                           !.thrown = built.thrown]
                       ELSE IF index < _size
                       THEN [NoCall EXCEPT !.op = "to_string", !.inst = last.inst,
                                !.news = Len(built.heap) - Len(heap),
                                !.index = index,
                                !.name = StringAt(built.heap,
                                                  At(built.heap[built.pn].data, index))]
                       ELSE [NoCall EXCEPT !.op = "to_string", !.inst = last.inst,
                                           !.news = Len(built.heap) - Len(heap),
                                           !.thrown = "domain_error"]
    /\ UNCHANGED <<decls, _Integral, _value_array, _name_array, arg, loops, threads, frame>>

\* *it of a name iterator at the index of a declaration: _getProcessedName(index)
_getProcessedName ==
    /\ arg.kind = "const"
    /\ \E new1, new2 \in Allocations(_processedNames) :
        \E built \in {_processNames(heap, _processedNames, new1, new2)},
           index \in {arg.decl - 1} :
            /\ Cardinality(Leaked(built.heap, built.pn)) <= MaxLeaked
            /\ heap' = built.heap
            /\ _processedNames' = built.pn
            /\ last' = IF built.thrown # ""
                       THEN [NoCall EXCEPT !.op = "_getProcessedName",
                                           !.news = Len(built.heap) - Len(heap),
                                           !.thrown = built.thrown]
                       ELSE [NoCall EXCEPT !.op = "_getProcessedName",
                                !.news = Len(built.heap) - Len(heap),
                                !.index = index,
                                !.name = StringAt(built.heap,
                                                  At(built.heap[built.pn].data, index))]
    /\ UNCHANGED <<decls, _Integral, _value_array, _name_array, arg, loops, threads, frame>>

---------------------------------------------------------------------------
(* The client of one enum type: its declaration list and the argument it   *)
(* passes are fixed at the start; it then calls the generated type.        *)

Programs(ids, inits, n, bits) ==
    {l \in DeclLists(Declarations(ids, inits), n) : Compiles(l, bits)}

\* ENUM(EnumType, UnderlyingType, ...): the generated arrays
Generated(l, bits) ==
    /\ decls = l
    /\ _Integral = bits
    /\ _value_array = _ENUM_EAT_ASSIGN(l)
    /\ _name_array = _ENUM_STRINGIZE(l)

Init ==
    /\ \E l \in Programs(IdPool, InitValues, MaxDecls, LookupBits) :
          Generated(l, LookupBits)
    /\ arg \in {IntArg(v) : v \in Integral(_Integral)} \cup {StrArg(n) : n \in Queries}
               \cup {ConstArg(i) : i \in 1..Len(decls)}
    /\ last = NoCall
    /\ heap = <<>>
    /\ _processedNames = nullptr
    /\ loops = <<>>
    /\ threads = <<>>
    /\ frame = NoFrame

Next ==
    \/ Construct
    \/ to_int
    \/ _from_int
    \/ _from_int_unchecked
    \/ _from_string
    \/ _from_string_nocase
    \/ _is_valid
    \/ _is_valid_name
    \/ _is_valid_nocase
    \/ to_string
    \/ _getProcessedName

Spec == Init /\ [][Next]_vars

---------------------------------------------------------------------------
(* The range metadata: the client reads the constants of an enum type      *)
(* whose declarations are A, B, C, ... with initialisers over the whole    *)
(* width of the underlying type.                                           *)

\* the identifier of the declaration at position i: A, B, C, ...
RangeId(i) == <<64 + i>>

\* explicit initialisers of the declarations whose range is explored
RangeInits(bits) == {0, 5, 10, Pow2(bits) - 1}

RECURSIVE RangeLists(_, _)
\* the lists of 1..n declarations A, B, C, ..., each bare or `id = init`
RangeLists(n, bits) ==
    IF n = 0 THEN {<<>>}
    ELSE LET shorter == RangeLists(n - 1, bits)
         IN  shorter \cup
             {Append(l, d) : l \in {x \in shorter : Len(x) = n - 1},
                             d \in {y \in Declarations({RangeId(n)}, RangeInits(bits)) :
                                       ~y.tight}}

RangePrograms(n, bits) == {l \in RangeLists(n, bits) : Compiles(l, bits)}

Read(what, v) ==
    /\ last' = [NoCall EXCEPT !.op = what, !.value = v]
    /\ UNCHANGED <<decls, _Integral, _value_array, _name_array, arg, heap,
                   _processedNames, loops, threads, frame>>

Read_size == Read("_size", _size)
Read_first == Read("_first", _first)
Read_last == Read("_last", _last)
Read_min == Read("_min", _min)
Read_max == Read("_max", _max)
Read_span == Read("_span", _span)

InitRange ==
    /\ \E l \in RangePrograms(MaxRangeDecls, RangeBits) : Generated(l, RangeBits)
    /\ arg = ConstArg(1)
    /\ last = NoCall
    /\ heap = <<>>
    /\ _processedNames = nullptr
    /\ loops = <<>>
    /\ threads = <<>>
    /\ frame = NoFrame

NextRange ==
    \/ Read_size
    \/ Read_first
    \/ Read_last
    \/ Read_min
    \/ Read_max
    \/ Read_span

SpecRange == InitRange /\ [][NextRange]_vars

---------------------------------------------------------------------------
(* Iteration over values(): NumLoops loops of the client,                  *)
(*     for (auto it = values().begin(); it != values().end(); ++it) *it    *)
(* each with its own iterator, running interleaved and again when done.    *)

NumLoops == 2

\* _BaseIterator(size_t index)
Iterator(index) == [_index |-> index]

\* _Iterable::end() ending one entry early
end_short == Iterator(_size - 1)

\* _Iterable::begin() and _Iterable::end()
begin == Iterator(0)
end == Iterator(_size)

\* _BaseIterator::operator ++ and operator !=
Increment(it) == [it EXCEPT !._index = @ + 1]
Differ(it, other) == other._index # it._index

\* _ValueIterator::operator *: the instance made of the entry at the index
Dereference(it) == Instance(At(_value_array, it._index), "values", 0)

IdleLoop == [pc |-> "idle", it |-> Iterator(0), yielded |-> <<>>]

\* auto it = values().begin()
LoopBegin(l) ==
    /\ loops[l].pc \in {"idle", "done"}
    /\ loops' = [loops EXCEPT ![l] = [pc |-> "test", it |-> begin, yielded |-> <<>>]]
    /\ UNCHANGED <<decls, _Integral, _value_array, _name_array, arg, last, heap,
                   _processedNames, threads, frame>>

\* it != values().end(), and the body: *it
LoopTest(l) ==
    /\ loops[l].pc = "test"
    /\ loops' = [loops EXCEPT ![l] =
                    IF Differ(loops[l].it, end)
                    THEN [@ EXCEPT !.pc = "step",
                                   !.yielded = Append(@, Dereference(loops[l].it))]
                    ELSE [@ EXCEPT !.pc = "done"]]
    /\ UNCHANGED <<decls, _Integral, _value_array, _name_array, arg, last, heap,
                   _processedNames, threads, frame>>

\* ++it
LoopIncrement(l) ==
    /\ loops[l].pc = "step"
    /\ loops' = [loops EXCEPT ![l] = [@ EXCEPT !.pc = "test", !.it = Increment(@)]]
    /\ UNCHANGED <<decls, _Integral, _value_array, _name_array, arg, last, heap,
                   _processedNames, threads, frame>>

InitIter ==
    /\ \E l \in Programs(IdPool, InitValues, MaxDecls, LookupBits) :
          Generated(l, LookupBits)
    /\ arg = ConstArg(1)
    /\ last = NoCall
    /\ heap = <<>>
    /\ _processedNames = nullptr
    /\ loops = [l \in 1..NumLoops |-> IdleLoop]
    /\ threads = <<>>
    /\ frame = NoFrame

NextIter ==
    \/ \E l \in 1..NumLoops : LoopBegin(l)
    \/ \E l \in 1..NumLoops : LoopTest(l)
    \/ \E l \in 1..NumLoops : LoopIncrement(l)

SpecIter == InitIter /\ [][NextIter]_vars

RECURSIVE ValuesLoop(_, _)
\* for (EnumType e : EnumType::values()): the values the loop yields from
\* iterator `it` on, after those of `yielded`
ValuesLoop(it, yielded) ==
    IF Differ(it, end)
    THEN ValuesLoop(Increment(it), Append(yielded, Dereference(it)._value))
    ELSE yielded

\* a whole loop over values(), among the calls of the client; what it
\* reports is how many instances it yielded
IterateValues ==
    /\ last' = [NoCall EXCEPT !.op = "values",
                              !.value = Len(ValuesLoop(begin, <<>>))]
    /\ UNCHANGED <<decls, _Integral, _value_array, _name_array, arg, heap,
                   _processedNames, loops, threads, frame>>

NextFrame ==
    \/ Next
    \/ IterateValues

SpecFrame == Init /\ [][NextFrame]_vars

---------------------------------------------------------------------------
(* Threads that need a name at the same time.  Each calls to_string() on   *)
(* a constant, or dereferences a name iterator; the steps of a call are    *)
(* the reads and writes of the static _processedNames, which no lock and   *)
(* no atomic orders.                                                       *)

NumThreads == 2

\* what a thread does: op on declaration decl; table is the pointer it read
\* or built, built whether it built it
IdleThread == [pc |-> "idle", op |-> "", decl |-> 0, table |-> nullptr,
               built |-> FALSE, thrown |-> "", name |-> <<>>]

\* the call: to_string() on constant i, or *it of a name iterator at i - 1
ThreadCall(t) ==
    /\ threads[t].pc = "idle"
    /\ \E op \in {"to_string", "_getProcessedName"}, i \in 1..Len(decls) :
          threads' = [threads EXCEPT ![t] = [IdleThread EXCEPT !.pc = "check",
                                                 !.op = op, !.decl = i]]
    /\ UNCHANGED <<decls, _Integral, _value_array, _name_array, arg, last, heap,
                   _processedNames, loops, frame>>

\* _processNames(): if (_processedNames == nullptr)
ThreadCheck(t) ==
    /\ threads[t].pc = "check"
    /\ threads' = [threads EXCEPT ![t] =
                      IF _processedNames = nullptr
                      THEN [@ EXCEPT !.pc = "build"]
                      ELSE [@ EXCEPT !.pc = "read"]]
    /\ UNCHANGED <<decls, _Integral, _value_array, _name_array, arg, last, heap,
                   _processedNames, loops, frame>>

\* _enum::_processNames(_name_array, _size), not yet assigned
ThreadBuild(t) ==
    /\ threads[t].pc = "build"
    /\ \E new1, new2 \in NewOutcomes :
        \E built \in {_enum_processNames(_name_array, _size, heap, new1, new2)} :
            /\ built.thrown # "" =>
                  Cardinality(Leaked(built.heap, _processedNames)) <= MaxLeaked
            /\ heap' = built.heap
            /\ threads' = [threads EXCEPT ![t] =
                              IF built.thrown # ""
                              THEN [@ EXCEPT !.pc = "done", !.thrown = built.thrown]
                              ELSE [@ EXCEPT !.pc = "store", !.table = built.ret,
                                             !.built = TRUE]]
    /\ UNCHANGED <<decls, _Integral, _value_array, _name_array, arg, last,
                   _processedNames, loops, frame>>

\* _processedNames = ...
ThreadStore(t) ==
    /\ threads[t].pc = "store"
    /\ _processedNames' = threads[t].table
    /\ threads' = [threads EXCEPT ![t] = [@ EXCEPT !.pc = "read"]]
    /\ UNCHANGED <<decls, _Integral, _value_array, _name_array, arg, last, heap,
                   loops, frame>>

\* return _processedNames[index]: the pointer is read again; what a thread
\* reads through a pointer another thread published without synchronisation
\* is the name or bytes not yet written
ThreadRead(t) ==
    /\ threads[t].pc = "read"
    /\ \E index \in {to_string_loop(_Enumerated(decls, threads[t].decl), 0)
                        : o \in {threads[t].op} \cap {"to_string"}}
                    \cup {threads[t].decl - 1
                        : o \in {threads[t].op} \cap {"_getProcessedName"}} :
        \E name \in {StringAt(heap, At(heap[_processedNames].data, index))}
                    \cup {<<Indeterminate>> : b \in {threads[t].built} \ {TRUE}} :
            threads' = [threads EXCEPT ![t] = [@ EXCEPT !.pc = "done",
                                                   !.table = _processedNames,
                                                   !.name = name]]
    /\ UNCHANGED <<decls, _Integral, _value_array, _name_array, arg, last, heap,
                   _processedNames, loops, frame>>

InitRace ==
    /\ \E l \in Programs(IdPool, InitValues, MaxDecls, LookupBits) :
          Generated(l, LookupBits)
    /\ arg = ConstArg(1)
    /\ last = NoCall
    /\ heap = <<>>
    /\ _processedNames = nullptr
    /\ loops = <<>>
    /\ threads = [t \in 1..NumThreads |-> IdleThread]
    /\ frame = NoFrame

NextRace ==
    \/ \E t \in 1..NumThreads : ThreadCall(t)
    \/ \E t \in 1..NumThreads : ThreadCheck(t)
    \/ \E t \in 1..NumThreads : ThreadBuild(t)
    \/ \E t \in 1..NumThreads : ThreadStore(t)
    \/ \E t \in 1..NumThreads : ThreadRead(t)

SpecRace == InitRace /\ [][NextRace]_vars

---------------------------------------------------------------------------
(* The name-ender matcher on its own: the client hands it one character.   *)

\* the largest character code handed to _endsName
MaxChar == 127

CharArg(c) == [kind |-> "char", int |-> c, str |-> <<>>, decl |-> 0]

\* _endsName(c), index defaulted to 0
Call_endsName ==
    /\ arg.kind = "char"
    /\ last' = [NoCall EXCEPT !.op = "_endsName", !.value = arg.int,
                              !.flag = _endsName(arg.int, 0)]
    /\ UNCHANGED <<decls, _Integral, _value_array, _name_array, arg, heap,
                   _processedNames, loops, threads, frame>>

InitEnds ==
    /\ \E l \in Programs(IdPool, InitValues, 1, LookupBits) :
          Generated(l, LookupBits)
    /\ arg \in {CharArg(c) : c \in 0..MaxChar}
    /\ last = NoCall
    /\ heap = <<>>
    /\ _processedNames = nullptr
    /\ loops = <<>>
    /\ threads = <<>>
    /\ frame = NoFrame

NextEnds == Call_endsName

SpecEnds == InitEnds /\ [][NextEnds]_vars

---------------------------------------------------------------------------
(* The name processor step by step, on raw name tables of any stringized   *)
(* text: _enum::_processNames(_name_array, _size), one action for each     *)
(* allocation and for each iteration of the trimming loop.                 *)

\* longest raw name, and most raw names of a table
MaxRawLen == 3
MaxRawNames == 2

\* the characters of the raw names: A = space
RawChars == {65, 61, 32}

\* stringized declarations: text that starts with an identifier character
RawNames(len) == {<<65>> \o t : t \in SeqsUpTo(RawChars, len - 1)}

RawTables(n, len) == SeqsUpTo(RawNames(len), n) \ {<<>>}

\* const char **processedNames = new const char*[count]
TrimNewNames ==
    /\ frame.pc = "new1"
    /\ \E new1 \in NewOutcomes :
          IF new1 = "ok"
          THEN /\ heap' = New(heap, "names", _size)
               /\ frame' = [frame EXCEPT !.pc = "new2",
                                         !.processedNames = Len(heap) + 1]
          ELSE /\ heap' = heap
               /\ frame' = [frame EXCEPT !.pc = "bad_alloc"]
    /\ UNCHANGED <<decls, _Integral, _value_array, _name_array, arg, last,
                   _processedNames, loops, threads>>

\* the loop that sums bytesNeeded; char *nameStorage = new char[bytesNeeded];
\* char *writePointer = nameStorage
TrimNewStorage ==
    /\ frame.pc = "new2"
    /\ \E new2 \in NewOutcomes,
          bytesNeeded \in {BytesNeeded(_name_array, _size, 0)} :
          IF new2 = "ok"
          THEN /\ heap' = New(heap, "chars", bytesNeeded)
               /\ frame' = [frame EXCEPT !.pc = "trim", !.index = 0,
                                         !.bytesNeeded = bytesNeeded,
                                         !.nameStorage = Len(heap) + 1,
                                         !.writePointer = 0]
          ELSE /\ heap' = heap
               /\ frame' = [frame EXCEPT !.pc = "bad_alloc",
                                         !.bytesNeeded = bytesNeeded]
    /\ UNCHANGED <<decls, _Integral, _value_array, _name_array, arg, last,
                   _processedNames, loops, threads>>

\* one iteration of the trimming loop.  A write past the end of nameStorage
\* is undefined behaviour: the processor stops at pc "undefined", which
\* stands for whatever the build makes of it.
TrimStep ==
    /\ frame.pc = "trim"
    /\ frame.index < _size
    /\ \E rawName \in {At(_name_array, frame.index)} :
        \E symbolCount \in {SymbolCount(rawName)} :
          IF frame.writePointer + symbolCount + 1 > Len(heap[frame.nameStorage].data)
          THEN /\ heap' = heap
               /\ frame' = [frame EXCEPT !.pc = "undefined"]
          ELSE /\ heap' =
                    [heap EXCEPT
                       ![frame.nameStorage].data =
                           [strncpy(@, frame.writePointer, rawName, symbolCount)
                               EXCEPT ![frame.writePointer + symbolCount + 1] = 0],
                       ![frame.processedNames].data =
                           [@ EXCEPT ![frame.index + 1] =
                               [blk |-> frame.nameStorage, off |-> frame.writePointer]]]
               /\ frame' = [frame EXCEPT !.index = @ + 1,
                                         !.writePointer = @ + symbolCount + 1]
    /\ UNCHANGED <<decls, _Integral, _value_array, _name_array, arg, last,
                   _processedNames, loops, threads>>

\* return processedNames, which _Enum::_processNames stores
TrimReturn ==
    /\ frame.pc = "trim"
    /\ frame.index = _size
    /\ _processedNames' = frame.processedNames
    /\ frame' = [frame EXCEPT !.pc = "done"]
    /\ UNCHANGED <<decls, _Integral, _value_array, _name_array, arg, last, heap,
                   loops, threads>>

InitTrim ==
    /\ decls = <<>>
    /\ _Integral = LookupBits
    /\ _name_array \in RawTables(MaxRawNames, MaxRawLen)
    /\ _value_array = [i \in 1..Len(_name_array) |-> 0]
    /\ arg = ConstArg(1)
    /\ last = NoCall
    /\ heap = <<>>
    /\ _processedNames = nullptr
    /\ loops = <<>>
    /\ threads = <<>>
    /\ frame = [NoFrame EXCEPT !.pc = "new1"]

NextTrim ==
    \/ TrimNewNames
    \/ TrimNewStorage
    \/ TrimStep
    \/ TrimReturn

SpecTrim == InitTrim /\ [][NextTrim]_vars

---------------------------------------------------------------------------
(* The properties.  What they compare the calls with is stated on the      *)
(* declaration list and the value table, not with the loops of the code.   *)

\* v equals some entry of the Value Table
InValueTable(v) == \E i \in 1..Len(_value_array) : _value_array[i] = v

\* two names are equal under ASCII case folding: of equal length, and at
\* each position the same character or the two cases of one letter
IsUpper(c) == c \in 65..90
IsLower(c) == c \in 97..122
SameLetter(c, d) ==
    \/ c = d
    \/ IsUpper(c) /\ d = c + 32
    \/ IsLower(c) /\ d = c - 32
FoldEqual(x, y) == Len(x) = Len(y) /\ \A k \in 1..Len(x) : SameLetter(x[k], y[k])

\* the declarations (1-based) a lookup of the call can match
MatchesCall(call, i) ==
    CASE call.op \in {"_from_int", "_is_valid"} -> _value_array[i] = call.value
      [] call.op \in {"_from_string", "_is_valid_name"} -> decls[i].id = call.name
      [] call.op \in {"_from_string_nocase", "_is_valid_nocase"} ->
             FoldEqual(decls[i].id, call.name)
      [] OTHER -> FALSE

\* the first declaration whose value is that of declaration i
FirstWithValueOf(i) ==
    CHOOSE j \in 1..i : /\ _Enumerated(decls, j) = _Enumerated(decls, i)
                        /\ \A k \in 1..(j - 1) :
                              _Enumerated(decls, k) # _Enumerated(decls, i)

\* C1: is_valid(v) is true and from_int(v) returns an instance whose to_int()
\* is v when v is an entry of the Value Table; otherwise is_valid(v) is false
\* and from_int(v) throws a runtime error and yields no instance.
C1_FromIntValidates ==
    /\ last.op = "_is_valid" =>
          last.thrown = "" /\ last.flag = InValueTable(last.value)
    /\ last.op = "_from_int" =>
          IF InValueTable(last.value)
          THEN last.thrown = "" /\ last.inst.has /\ last.inst._value = last.value
          ELSE last.thrown = "runtime_error" /\ ~last.inst.has
    /\ last.op = "to_int" /\ last.inst.via = "_from_int" =>
          last.thrown = "" /\ InValueTable(last.value)

\* C1 witness: from_int returned for an entry that is not the first of a table,
\* and to_int() of what it returned was read
C1_Witness ==
    /\ last.op = "to_int" /\ last.inst.via = "_from_int"
    /\ last.value # _first
    /\ arg.kind = "int" /\ arg.int = last.value

\* C2: for every declared constant c, from_int(to_int(from_string(name of c)))
\* returns, and returns an instance equal to c.
C2_RoundTrip ==
    \A c \in 1..Len(decls) :
        arg.kind = "str" /\ arg.str = decls[c].id =>
            /\ last.op = "_from_string" => last.thrown = "" /\ last.inst.has
            /\ last.op = "_from_int" /\ last.src = "_from_string" =>
                  /\ last.thrown = ""
                  /\ last.inst.has
                  /\ last.inst._value = _Enumerated(decls, c)

\* C2 witness: the round trip was made for a constant that duplicates the value
\* of an earlier one and is written with an initialiser
C2_Witness ==
    /\ last.op = "_from_int" /\ last.src = "_from_string"
    /\ \E c \in 2..Len(decls) :
          /\ arg.str = decls[c].id
          /\ decls[c].hasInit
          /\ _Enumerated(decls, c) = _Enumerated(decls, 1)

\* C3 as stated: to_string() of the instance constructed from constant i
\* returns the identifier of declaration i.
C3_ToStringOwnIdentifier ==
    last.op = "to_string" /\ last.inst.via = "constant" /\ last.thrown = "" =>
        last.name = decls[last.inst.decl].id

\* C3 amended: to_string() of the instance constructed from constant i never
\* throws a domain error, and what it returns is the identifier, without
\* initialiser and whitespace, of the first declaration whose value is that
\* of constant i: the identifier of declaration i itself when no earlier
\* declaration has its value.
C3_ToStringFirstIdentifier ==
    last.op = "to_string" /\ last.inst.via = "constant" =>
        /\ last.thrown # "domain_error"
        /\ last.thrown = "" =>
              last.name = decls[FirstWithValueOf(last.inst.decl)].id

\* C3 witness: to_string() returned for a constant declared `id = init`
C3_Witness ==
    /\ last.op = "to_string" /\ last.inst.via = "constant" /\ last.thrown = ""
    /\ decls[last.inst.decl].hasInit /\ ~decls[last.inst.decl].tight
    /\ FirstWithValueOf(last.inst.decl) = last.inst.decl
    /\ Len(decls) > 1

\* C4: from_string_nocase(s) returns and is_valid_nocase(s) is true exactly
\* when some declared name equals s under ASCII case folding; otherwise
\* from_string_nocase(s) throws a runtime error and is_valid_nocase(s) is false.
C4_NocaseLookup ==
    /\ last.op = "_from_string_nocase" =>
          IF \E i \in 1..Len(decls) : FoldEqual(decls[i].id, last.name)
          THEN last.thrown = "" /\ last.inst.has
          ELSE last.thrown = "runtime_error" /\ ~last.inst.has
    /\ last.op = "_is_valid_nocase" =>
          /\ last.thrown = ""
          /\ last.flag = (\E i \in 1..Len(decls) : FoldEqual(decls[i].id, last.name))

\* C4 witness: from_string_nocase returned for a query that is no declared
\* name as written
C4_Witness ==
    /\ last.op = "_from_string_nocase" /\ last.thrown = ""
    /\ Len(last.name) = 2
    /\ \A i \in 1..Len(decls) : decls[i].id # last.name

\* C6: the index a lookup by value, by name or by case-insensitive name
\* returns is the smallest index of a declaration that matches.
C6_FirstMatchWins ==
    last.index # _ENUM_NOT_FOUND /\ last.op # "to_string"
                                 /\ last.op # "_getProcessedName" =>
        /\ last.index \in 0..(_size - 1)
        /\ MatchesCall(last, last.index + 1)
        /\ \A j \in 1..last.index : ~MatchesCall(last, j)

\* C6 witness: with {X, Y = X} from_int(0) resolved to index 0
C6_Witness ==
    /\ last.op = "_from_int" /\ last.value = 0 /\ last.index = 0
    /\ Len(decls) = 2 /\ ~decls[1].hasInit /\ decls[2].hasInit
    /\ _value_array = <<0, 0>>

DeclaredValues == {_Enumerated(decls, i) : i \in 1..Len(decls)}
SmallestDeclared == CHOOSE m \in DeclaredValues : \A v \in DeclaredValues : m <= v
LargestDeclared == CHOOSE m \in DeclaredValues : \A v \in DeclaredValues : m >= v

\* largest - smallest + 1 is a value of the underlying type
SpanRepresentable == LargestDeclared - SmallestDeclared + 1 < Pow2(_Integral)

\* C5: a loop over values() from begin() to end() yields the N declared
\* values in declaration order, once each, whatever other loops run before
\* or meanwhile; begin() has index 0 and end() index N.
C5_ValuesInOrder ==
    /\ begin._index = 0
    /\ end._index = Len(decls)
    /\ \A l \in 1..NumLoops :
          /\ Len(loops[l].yielded) <= Len(decls)
          /\ \A k \in 1..Len(loops[l].yielded) :
                /\ loops[l].yielded[k].has
                /\ loops[l].yielded[k]._value = _Enumerated(decls, k)
          /\ loops[l].pc = "done" => Len(loops[l].yielded) = Len(decls)
          /\ loops[l].pc = "test" => Len(loops[l].yielded) = loops[l].it._index
          /\ loops[l].pc = "step" => Len(loops[l].yielded) = loops[l].it._index + 1
    /\ \A l, m \in 1..NumLoops :
          loops[l].pc = "done" /\ loops[m].pc = "done" =>
              loops[l].yielded = loops[m].yielded

\* C5 witness: one loop is done while another is half way through a table
\* that holds a value twice
C5_Witness ==
    /\ Len(decls) = 2 /\ _Enumerated(decls, 1) = _Enumerated(decls, 2)
    /\ loops[1].pc = "done"
    /\ loops[2].pc = "step" /\ Len(loops[2].yielded) = 1

\* C7 as stated: span >= size, whatever the declared values.
C7_SpanAtLeastSize == last.op = "_span" => last.value >= Len(decls)

\* C7 amended: when max - min + 1 is a value of the underlying type, span is
\* at least the number of distinct declared values; it is at least the number
\* of declarations N when no value is declared twice.
C7_SpanAtLeastDistinct ==
    last.op = "_span" /\ SpanRepresentable =>
        /\ last.value >= Cardinality(DeclaredValues)
        /\ Cardinality(DeclaredValues) = Len(decls) => last.value >= Len(decls)

\* C7 witness: the span of a table that holds a value twice was read, and is
\* less than the number of declarations
C7_Witness ==
    /\ last.op = "_span" /\ SpanRepresentable
    /\ Cardinality(DeclaredValues) < Len(decls)
    /\ last.value < Len(decls)

\* C8: min is the smallest and max the largest declared value, first the
\* value of declaration 0 and last that of declaration N-1, size is N, and
\* span is max - min + 1 in the arithmetic of the underlying type.
C8_RangeMetadata ==
    /\ last.op = "_min" => last.value = SmallestDeclared
    /\ last.op = "_max" => last.value = LargestDeclared
    /\ last.op = "_first" => last.value = _Enumerated(decls, 1)
    /\ last.op = "_last" => last.value = _Enumerated(decls, Len(decls))
    /\ last.op = "_size" => last.value = Len(decls)
    /\ last.op = "_span" =>
          last.value = (LargestDeclared - SmallestDeclared + 1) % Pow2(_Integral)

\* C8 witness: {A = 10, B, C = 5} has values {10, 11, 5}, min 5, max 11,
\* span 7 and size 3
C8_Witness ==
    /\ _value_array = <<10, 11, 5>> /\ ~decls[2].hasInit
    /\ last.op = "_span" /\ last.value = 7
    /\ _min = 5 /\ _max = 11 /\ _size = 3

\* C10: however the threads interleave, the processed name table is built at
\* most once and every thread reads its name from that one table.
C10_OneTableForAllThreads ==
    /\ Cardinality({t \in 1..NumThreads : threads[t].built}) <= 1
    /\ \A t, u \in 1..NumThreads :
          /\ threads[t].pc = "done" /\ threads[t].thrown = ""
          /\ threads[u].pc = "done" /\ threads[u].thrown = ""
          => threads[t].table = threads[u].table

\* C11: once the processed name table is built, no call of the client, and
\* so no later to_string() and no later dereference of a name iterator,
\* allocates, moves the table pointer or changes a stored name: the heap
\* and _processedNames stay as they are.
C11_BuiltAtMostOnce ==
    [][_processedNames # nullptr =>
          /\ _processedNames' = _processedNames
          /\ heap' = heap]_vars

\* C11 witness: to_string() returned a name and obtained no block, the table
\* being the one an earlier call built
C11_Witness ==
    /\ last.op = "to_string" /\ last.thrown = "" /\ last.news = 0
    /\ _processedNames # nullptr
    /\ StringAt(heap, At(heap[_processedNames].data, last.index)) = last.name

\* C12: a call whose build of the processed name table failed, at the
\* allocation of the pointer array or at that of the character storage,
\* leaves _processedNames null and holds no block the build obtained.
C12_FailedBuildHoldsNothing ==
    last.thrown = "bad_alloc" =>
        /\ _processedNames = nullptr
        /\ last.news = 0
        /\ Leaked(heap, _processedNames) = {}

\* C13 as stated: _endsName(c) is true exactly for space, tab, newline and
\* the null terminator, and so false for '='.
C13_EndsNameWhitespaceOrNull ==
    last.op = "_endsName" => (last.flag <=> last.value \in {32, 9, 10, 0})

\* C13 amended: _endsName(c) is true exactly for '=', space, tab, newline
\* and the null terminator.
C13_EndsNameEndersOrNull ==
    last.op = "_endsName" => (last.flag <=> last.value \in {61, 32, 9, 10, 0})

\* C13 witness: _endsName('=') returned true
C13_Witness == last.op = "_endsName" /\ last.value = 61 /\ last.flag

\* C14: a call of from_int, from_int_unchecked, to_int, from_string,
\* from_string_nocase, is_valid (of a value or of a name), is_valid_nocase,
\* or a loop over values(), leaves _processedNames and the heap as they
\* were, null and empty while no table is built; a step that changes
\* _processedNames is a call of to_string() or a dereference of a name
\* iterator.
C14_LookupsLeaveTable ==
    [][/\ last'.op \in {"_from_int", "_from_int_unchecked", "to_int",
                        "_from_string", "_from_string_nocase", "_is_valid",
                        "_is_valid_name", "_is_valid_nocase", "values"} =>
              /\ _processedNames' = _processedNames
              /\ heap' = heap
       /\ _processedNames' # _processedNames =>
              last'.op \in {"to_string", "_getProcessedName"}]_vars

\* C14 witness: from_string returned an instance while the table was still
\* unbuilt and nothing had been allocated
C14_Witness ==
    /\ last.op = "_from_string" /\ last.thrown = "" /\ last.inst.has
    /\ _processedNames = nullptr /\ heap = <<>>

\* the characters that end a name inside a raw name, and the length of the
\* part of a raw name before the first of them
Enders == {61, 32, 9, 10}
TrimmedLen(rawName) ==
    CHOOSE n \in 0..Len(rawName) :
        /\ \A k \in 1..n : rawName[k] \notin Enders
        /\ n = Len(rawName) \/ rawName[n + 1] \in Enders

RECURSIVE RawBytes(_)
\* the sum over the raw names of a table of their full length + 1
RawBytes(rawNames) ==
    IF rawNames = <<>> THEN 0
    ELSE Len(Head(rawNames)) + 1 + RawBytes(Tail(rawNames))

\* C15: the trimming loop never writes past the character storage it
\* allocated.  The storage has the sum over the raw names of their full
\* length + 1 bytes; before each iteration the write position plus the
\* trimmed length of the name + 1 is within it; and each pointer recorded
\* so far points into the storage, at a null-terminated copy of the
\* trimmed name, which holds no ender and no byte never written.
C15_WritesStayInStorage ==
    /\ frame.pc # "undefined"
    /\ frame.pc \in {"trim", "done"} =>
          LET storage == heap[frame.nameStorage].data
              size == Len(storage)
          IN  /\ size = RawBytes(_name_array)
              /\ frame.writePointer <= size
              /\ frame.index < Len(_name_array) =>
                    frame.writePointer
                        + TrimmedLen(_name_array[frame.index + 1]) + 1 <= size
              /\ \A k \in 1..frame.index :
                    LET ptr == heap[frame.processedNames].data[k]
                        n == TrimmedLen(_name_array[k])
                    IN  /\ ptr.blk = frame.nameStorage
                        /\ ptr.off >= 0 /\ ptr.off + n < size
                        /\ storage[ptr.off + n + 1] = 0
                        /\ \A j \in 1..n :
                              /\ storage[ptr.off + j] = _name_array[k][j]
                              /\ storage[ptr.off + j] \notin Enders \cup {0, Indeterminate}
    /\ frame.pc = "done" =>
          /\ _processedNames = frame.processedNames
          /\ frame.index = Len(_name_array)

\* C15 witness: the processor returned a table of two names, trimmed one of
\* them at an ender, and filled less than the storage it allocated
C15_Witness ==
    /\ frame.pc = "done" /\ Len(_name_array) = 2
    /\ \E k \in 1..2 : TrimmedLen(_name_array[k]) < Len(_name_array[k])
    /\ frame.writePointer < Len(heap[frame.nameStorage].data)
    /\ StringAt(heap, heap[_processedNames].data[2]) = <<65>>

\* what the step-by-step processor leaves is what _enum::_processNames
\* computes in one go
TrimAgrees ==
    frame.pc = "done" =>
        heap = _enum_processNames(_name_array, _size, <<>>, "ok", "ok").heap

=============================================================================
